---- MODULE Spec2Model ----
(***************************************************************************)
(* jocker: a minimal container engine.  The model covers the image store,  *)
(* the extracted-image cache, the container store, Container::run_command  *)
(* (parent and cloned child), Container::export_as_image and               *)
(* ImageBuilder::build.                                                    *)
(*                                                                         *)
(* Names (of images, containers, files) and script lines are sequences of  *)
(* symbols: a symbol stands for a word or for one character ("." " " tab,  *)
(* NUL), so that splitting, filtering and stem-taking are computed.        *)
(***************************************************************************)
EXTENDS Integers, Sequences, FiniteSets, TLC

\* ---------------------------------------------------------------- bounds

\* Top-level commands (jocker invocations) in one behaviour of Spec.
MaxOps == 2

\* Lines of a build script.
MaxLines == 3

\* ------------------------------------------------------- small input sets

\* Regular files a command may create or delete in a container.
Files == {"a", "b"}

\* The nodes create_devices makes under rootfs/dev.
DeviceNodes == {"dev/null", "dev/zero", "dev/random", "dev/urandom"}

\* The file type of an entry of a tree: "d" and old_root are directories,
\* "l" is a symbolic link, the device nodes are character devices, every
\* other entry is a regular file.
FileType(e) ==
    CASE e \in DeviceNodes -> "char"
      [] e \in {"d", "old_root"} -> "dir"
      [] e = "l" -> "symlink"
      [] OTHER -> "file"

\* Image names the user passes on the command line: "base", "ghost" and
\* "base.v2".
ImageArgs == {<<"base">>, <<"ghost">>, <<"base", ".", "v2">>}

\* An image directory's image.tar.gz: a gzip-compressed tar of a tree
\* ("tar"), a file that does not unpack ("corrupt"), or no file ("absent").
Archive(tree) == [kind |-> "tar", tree |-> tree]
Corrupt == [kind |-> "corrupt", tree |-> {}]
Absent == [kind |-> "absent", tree |-> {}]

\* The archive of the image "base" the stores start with: an empty
\* directory and a symbolic link.
BaseImage == Archive({"d", "l"})

\* Tarballs the user imports.
Tarballs == {Archive({}), Archive({"a"}), Corrupt}

\* --name arguments of `jocker run` ("none": no --name given).
RunNameArgs == {<<"c1">>}

\* --name arguments with characters the filter of `jocker run` removes:
\* "my-box", "../", "/etc", "a/b", "..", "my_box".
NamedRunArgs == {<<"c1">>, <<"my", "-", "box">>, <<".", ".", "/">>, <<"/", "etc">>,
                 <<"a", "/", "b">>, <<".", ".">>, <<"my", "_", "box">>}

\* Names given to export_as_image by a caller of the library.
ExportNames == {<<"out">>}

\* Containers and commands of two `jocker container start` at the same time.
ConcurrentNames == {<<"c1">>, <<"c2">>}

ConcurrentCommands == {<<"true">>}

\* Names given to export_as_image by two callers at the same time.
ConcurrentExportNames == {<<"out1">>, <<"out2">>}

\* Lines of build scripts, and the scripts: up to MaxLines lines.
BuildLines == {<<"FROM", " ", "base">>, <<"FROM", " ", "ghost">>, <<"FROM">>, <<>>,
               <<"RUN", " ", "touch_a">>, <<"RUN", " ", "touch_b">>,
               <<"RUN", " ", "exit1">>, <<"RUN">>, <<"COPY", " ", "x">>,
               <<"RUN", " ", "rm_a_l">>}

Scripts == UNION {[1..n -> BuildLines] : n \in 0..MaxLines}

\* Lines of the scripts that try the parsing of a build: the FROM line with
\* no, one and two tokens after FROM, an empty line, a line of one space,
\* RUN with arguments, with none and with empty ones, and another command.
ScriptLines == {<<"FROM", " ", "base">>, <<"FROM", " ", "base", " ", "extra">>,
                <<"FROM">>, <<>>, <<" ">>, <<"RUN", " ", "touch_a">>, <<"RUN">>,
                <<"RUN", " ">>, <<"COPY", " ", "x">>}

ParseScripts == UNION {[1..n -> ScriptLines] : n \in 0..MaxLines}

\* Names and image names a caller of the library gives to create_container:
\* simple path components, some with characters JSON escapes or uses.
ConfigNames == {<<"c1">>, <<"my", "q", "box">>, <<"a", "bs", "b">>}

ConfigImageNames == {<<"base">>, <<"base", ".", "v2">>, <<"my", " ", "image">>,
                     <<"bs", "q">>, <<"{", "q", ":", "}">>}

\* Texts found in a config.json that jocker did not write: the two fields in
\* the other order and with spaces, an object without image_name, one with a
\* field more, one with a number for the name, an array of two strings, and
\* an empty file.
ConfigTexts ==
    {<<"{", "q", "image_name", "q", ":", " ", "q", "base", "q", ",", " ",
       "q", "name", "q", ":", " ", "q", "c1", "q", "}">>,
     <<"{", "q", "name", "q", ":", "q", "c1", "q", "}">>,
     <<"{", "q", "name", "q", ":", "q", "c1", "q", ",",
       "q", "image_name", "q", ":", "q", "base", "q", ",",
       "q", "extra", "q", ":", "q", "x", "q", "}">>,
     <<"{", "q", "name", "q", ":", "1", ",",
       "q", "image_name", "q", ":", "q", "base", "q", "}">>,
     <<"[", "q", "c1", "q", ",", "q", "base", "q", "]">>,
     <<>>}

\* Names given to `jocker image build -t`.
FinalNames == {<<"out">>, <<"base">>}

\* Shell commands given to run / start.
RunCommands == {<<"true">>, <<"touch_a">>, <<"exit1">>, <<"exit242">>,
                <<"mount_x">>, <<"true", "nul">>}

\* ------------------------------------------------------------ helpers

Put(f, k, v) == (k :> v) @@ f

Drop(f, k) == [x \in DOMAIN f \ {k} |-> f[x]]

Range(s) == {s[i] : i \in 1..Len(s)}

IsPrefix(s, t) == Len(s) <= Len(t) /\ SubSeq(t, 1, Len(s)) = s

\* Index of e in the duplicate-free sequence s, 0 when absent.
IndexOf(s, e) == IF e \in Range(s) THEN CHOOSE i \in 1..Len(s) : s[i] = e ELSE 0

\* ------------------------------------------------------------- values

NoStatus == [kind |-> "None", code |-> 0]
Exited(n) == [kind |-> "Exited", code |-> n]
Signaled == [kind |-> "Signaled", code |-> 0]

Ok == [err |-> "Ok", code |-> 0]
Err(e) == [err |-> e, code |-> 0]
CommandExitedWithError(n) == [err |-> "CommandExitedWithError", code |-> n]

\* std::process::exit(242) in the child's failure branch.
SetupFailureCode == 242

\* uuid::Uuid::new_v4().to_string(): the k-th identifier drawn.  Random
\* 122-bit identifiers are taken to be fresh.
UuidName(k) == <<"uuid-" \o ToString(k)>>

\* Path::file_stem: the name without its last extension.
LastDot(n) == IF "." \in Range(n) THEN CHOOSE i \in 1..Len(n) :
                   n[i] = "." /\ \A j \in (i+1)..Len(n) : n[j] # "." ELSE 0
FileStem(n) == IF LastDot(n) > 1 THEN SubSeq(n, 1, LastDot(n) - 1) ELSE n

\* ---------------------------------------------------------- the state

VARIABLES
    images,      \* ImageStore: name -> archive [kind, tree]
    extracted,   \* ExtractedImageStore: directory name -> unpacked tree
    containers,  \* ContainerStore: directory name -> container directory
    cgroups,     \* cgroup directories <<controller, container name>>
    hostShared,  \* propagation of the host's / is shared
    hostMounts,  \* mount table of the host mount namespace
    cmd,         \* the jocker invocation in progress
    rc,          \* the frame of Container::run_command
    child,       \* the cloned child process
    ex,          \* the frame of Container::export_as_image
    tmpArchive,  \* the archives written under /tmp: path -> archive
    bld,         \* the frame of ImageBuilder::build
    uuids,       \* identifiers drawn so far
    ops,         \* invocations started so far
    others       \* the frames of a second jocker process, while it is not running

vars == <<images, extracted, containers, cgroups, hostShared, hostMounts,
          cmd, rc, child, ex, tmpArchive, bld, uuids, ops, others>>

stores == <<images, extracted, containers>>

\* ---------------------------------------------------- container store

\* The text of config.json is a sequence of symbols: the punctuation of
\* JSON, "q" for the double quote, "bs" for the backslash, " " for a space,
\* and one symbol for each other word or character.
JsonPunct == {"{", "}", "[", "]", ":", ","}

\* A writer that copies a string as it is.
EscapeStr_Raw(str) == str

\* serde_json's format_escaped_str: the quote and the backslash are written
\* with a backslash before them.
RECURSIVE EscapeStr(_)
EscapeStr(str) ==
    IF str = <<>> THEN <<>>
    ELSE (IF Head(str) \in {"q", "bs"} THEN <<"bs", Head(str)>> ELSE <<Head(str)>>)
         \o EscapeStr(Tail(str))

JsonString(str) == <<"q">> \o EscapeStr(str) \o <<"q">>

\* ContainerConfig::save: serde_json::to_writer of the derived Serialize, the
\* two fields in the order of their declaration.
ToWriter(name, image_name) ==
    <<"{">> \o JsonString(<<"name">>) \o <<":">> \o JsonString(name) \o <<",">>
            \o JsonString(<<"image_name">>) \o <<":">> \o JsonString(image_name)
            \o <<"}">>

\* What a write that fails part of the way leaves in the file.
CutShort(text) == SubSeq(text, 1, Len(text) - 1)

\* serde_json's parse_str: the characters up to the closing quote, the
\* escapes undone; [ok, value, next].
RECURSIVE ReadStr(_, _, _)
ReadStr(text, i, acc) ==
    IF i > Len(text) THEN [ok |-> FALSE, value |-> <<>>, next |-> i]
    ELSE IF text[i] = "q" THEN [ok |-> TRUE, value |-> acc, next |-> i + 1]
    ELSE IF text[i] = "bs"
    THEN IF i + 1 <= Len(text) /\ text[i + 1] \in {"q", "bs"}
         THEN ReadStr(text, i + 2, Append(acc, text[i + 1]))
         ELSE [ok |-> FALSE, value |-> <<>>, next |-> i]
    ELSE ReadStr(text, i + 1, Append(acc, text[i]))

\* The tokens of a text: punctuation, strings, and other scalars (numbers,
\* true, false, null); whitespace between them is skipped.
RECURSIVE Tokens(_, _, _)
Tokens(text, i, acc) ==
    IF i > Len(text) THEN [ok |-> TRUE, toks |-> acc]
    ELSE IF text[i] = " " THEN Tokens(text, i + 1, acc)
    ELSE IF text[i] \in JsonPunct
    THEN Tokens(text, i + 1, Append(acc, [t |-> "punct", v |-> <<text[i]>>]))
    ELSE IF text[i] = "q"
    THEN IF ReadStr(text, i + 1, <<>>).ok
         THEN Tokens(text, ReadStr(text, i + 1, <<>>).next,
                     Append(acc, [t |-> "str", v |-> ReadStr(text, i + 1, <<>>).value]))
         ELSE [ok |-> FALSE, toks |-> <<>>]
    ELSE Tokens(text, i + 1, Append(acc, [t |-> "scalar", v |-> <<text[i]>>]))

Punct(sym) == [t |-> "punct", v |-> <<sym>>]

NoConfig == [ok |-> FALSE, name |-> <<>>, image_name |-> <<>>]

\* The derived Deserialize of ContainerConfig, visit_map: the members of an
\* object from token i on.  A key that is not a field of the struct is
\* skipped with its value; a field given twice, a field that is not a
\* string, a missing field, or anything after the closing brace is an error.
RECURSIVE VisitMap(_, _, _, _)
VisitMap(toks, i, seen, cfg) ==
    IF i + 3 > Len(toks) \/ toks[i].t # "str" \/ toks[i + 1] # Punct(":")
       \/ toks[i + 2].t = "punct"
    THEN NoConfig
    ELSE LET key == toks[i].v
             field == key \in {<<"name">>, <<"image_name">>}
             c == IF key = <<"name">> THEN [cfg EXCEPT !.name = toks[i + 2].v]
                  ELSE IF key = <<"image_name">>
                  THEN [cfg EXCEPT !.image_name = toks[i + 2].v]
                  ELSE cfg
             s == IF field THEN seen \cup {key} ELSE seen
         IN IF field /\ (key \in seen \/ toks[i + 2].t # "str") THEN NoConfig
            ELSE IF toks[i + 3] = Punct(",") THEN VisitMap(toks, i + 4, s, c)
            ELSE IF toks[i + 3] = Punct("}") /\ i + 3 = Len(toks)
                    /\ s = {<<"name">>, <<"image_name">>}
            THEN [c EXCEPT !.ok = TRUE]
            ELSE NoConfig

\* visit_seq: an array of exactly two strings, the fields in the order of
\* their declaration.
VisitSeq(toks) ==
    IF Len(toks) = 5 /\ toks[2].t = "str" /\ toks[3] = Punct(",") /\ toks[4].t = "str"
       /\ toks[5] = Punct("]")
    THEN [ok |-> TRUE, name |-> toks[2].v, image_name |-> toks[4].v]
    ELSE NoConfig

\* serde_json::from_reader::<ContainerConfig>: [ok, name, image_name].
FromReader(text) ==
    LET l == Tokens(text, 1, <<>>)
    IN IF ~l.ok \/ l.toks = <<>> THEN NoConfig
       ELSE IF l.toks[1] = Punct("{") THEN VisitMap(l.toks, 2, {}, NoConfig)
       ELSE IF l.toks[1] = Punct("[") THEN VisitSeq(l.toks)
       ELSE NoConfig

\* Container::create: create_dir_all, then save config.json; the other
\* entries of an existing directory are left as they are.  name and
\* image_name are the fields a load of config.json gives, config tells
\* whether the file is there.
NewContainerDir(name, image_name) ==
    [name |-> FromReader(ToWriter(name, image_name)).name,
     image_name |-> FromReader(ToWriter(name, image_name)).image_name,
     config |-> "present", json |-> ToWriter(name, image_name), dirs |-> FALSE,
     added |-> {}, removed |-> {}, devices |-> FALSE, old_root |-> FALSE]

\* A create that starts from an empty directory every time.
CreateContainer_Fresh(cs, name, image_name) ==
    Put(cs, name, NewContainerDir(name, image_name))

CreateContainer(cs, name, image_name) ==
    IF name \in DOMAIN cs
    THEN Put(cs, name, [cs[name] EXCEPT
                           !.name = NewContainerDir(name, image_name).name,
                           !.image_name = NewContainerDir(name, image_name).image_name,
                           !.config = "present",
                           !.json = ToWriter(name, image_name)])
    ELSE Put(cs, name, NewContainerDir(name, image_name))

\* Container::create fails: in create_dir_all (nothing changes), in
\* File::create of config.json (the directory is there; a new one has no
\* config.json), or in to_writer (config.json is there, cut short).
CreateFailures(cs, name, image_name) ==
    {cs,
     IF name \in DOMAIN cs THEN cs
     ELSE Put(cs, name, [NewContainerDir(name, image_name) EXCEPT
                            !.config = "missing", !.json = <<>>]),
     Put(cs, name, [(IF name \in DOMAIN cs THEN cs[name]
                     ELSE NewContainerDir(name, image_name))
                    EXCEPT !.config = "present",
                           !.json = CutShort(ToWriter(name, image_name))])}

\* ContainerConfig::load_from_file on the config.json of a directory.
LoadFromFile(c) ==
    IF c.config = "missing" THEN Err("CannotOpenConfigurationFile")
    ELSE IF ~FromReader(c.json).ok THEN Err("InvalidConfigurationFile")
    ELSE Ok

\* ContainerStore::get_container: Some(container) or None.
GetContainerResult(cs, name) ==
    IF name \in DOMAIN cs
    THEN IF LoadFromFile(cs[name]) = Ok THEN "Some" ELSE "None"
    ELSE "None"

GetContainer(cs, name) == GetContainerResult(cs, name) = "Some"

NoContainer == [some |-> FALSE, name |-> <<>>, image_name |-> <<>>, dir |-> <<>>]

\* The container get_container returns: the configuration from_directory
\* loads from config.json, and the directory it was loaded from.
GetContainerValue(cs, name) ==
    IF GetContainer(cs, name)
    THEN [some |-> TRUE, name |-> FromReader(cs[name].json).name,
          image_name |-> FromReader(cs[name].json).image_name, dir |-> name]
    ELSE NoContainer

\* ------------------------------------------------------- image stores

\* ImageStore::get_image / ExtractedImageStore::get_extracted_image
GetImage(is, image_name) == image_name \in DOMAIN is
GetExtractedImage(es, image_name) == image_name \in DOMAIN es

\* ImageStore::import_image: create_dir_all, then fs::copy of the tarball.
ImportImage(is, name, tarball) == Put(is, name, tarball)

\* import_image fails: in create_dir_all (nothing changes), or in fs::copy
\* (the directory is there, the archive is not written whole).
ImportFailures(is, name) ==
    {is, Put(is, name, IF name \in DOMAIN is /\ is[name].kind # "absent"
                       THEN Corrupt ELSE Absent)}

\* Image::name: the stem of the image directory's file name.
ImageName(image_name) == FileStem(image_name)

\* Image::extract_to: File::open of the archive, then Archive::unpack, which
\* creates the destination and writes the entries over what it holds.
ExtractTo(es, dest, archive) ==
    CASE archive.kind = "absent" -> es
      [] archive.kind = "corrupt" ->
           Put(es, dest, IF dest \in DOMAIN es THEN es[dest] ELSE {})
      [] OTHER ->
           Put(es, dest, (IF dest \in DOMAIN es THEN es[dest] ELSE {}) \cup archive.tree)

ExtractToResult(archive) ==
    CASE archive.kind = "absent" -> Err("InitializationError(InvalidImage)")
      [] archive.kind = "corrupt" -> Err("InitializationError(UnpackError)")
      [] OTHER -> Ok

\* extract_image that creates an empty extracted image when the image store
\* has no such image.
ExtractImage_Unchecked(es, is, image_name) ==
    IF GetExtractedImage(es, image_name)
    THEN [result |-> Ok, path |-> image_name, es |-> es]
    ELSE IF ~GetImage(is, image_name)
    THEN [result |-> Ok, path |-> ImageName(image_name),
          es |-> ExtractTo(es, ImageName(image_name), Archive({}))]
    ELSE [result |-> ExtractToResult(is[image_name]),
          path |-> IF ExtractToResult(is[image_name]) = Ok
                   THEN ImageName(image_name) ELSE <<>>,
          es |-> ExtractTo(es, ImageName(image_name), is[image_name])]

\* Container::extract_image: [result, path, es]
ExtractImage(es, is, image_name) ==
    IF GetExtractedImage(es, image_name)
    THEN [result |-> Ok, path |-> image_name, es |-> es]
    ELSE IF ~GetImage(is, image_name)
    THEN [result |-> Err("InitializationError(InvalidImage)"), path |-> <<>>, es |-> es]
    ELSE [result |-> ExtractToResult(is[image_name]),
          path |-> IF ExtractToResult(is[image_name]) = Ok
                   THEN ImageName(image_name) ELSE <<>>,
          es |-> ExtractTo(es, ImageName(image_name), is[image_name])]

\* ------------------------------------------------- run_command: parent

\* A conversion that accepts every command.
HasNul_Never(command) == FALSE

\* CString::new(command): fails on an interior NUL byte.
HasNul(command) == "nul" \in Range(command)

IdleRc == [pc |-> "idle", caller |-> "none", container |-> <<>>, command |-> <<>>,
           result |-> Ok, status |-> NoStatus, spawned |-> FALSE,
           extAtCall |-> {}, imgAtCall |-> {}, mountsAtCall |-> {}, cgAtCall |-> {}]

NoChild == [pc |-> 0, alive |-> FALSE, events |-> <<>>, executed |-> FALSE, failed |-> 0,
            status |-> NoStatus, mounts |-> {}, inherited |-> {},
            private |-> FALSE, image |-> <<>>]

CallRc(caller, container, command) ==
    [IdleRc EXCEPT !.pc = "call", !.caller = caller, !.container = container,
                   !.command = command, !.extAtCall = DOMAIN extracted,
                   !.imgAtCall = DOMAIN images, !.mountsAtCall = hostMounts,
                   !.cgAtCall = cgroups]

\* The match without its arm for 242.
TranslateStatus_No242(status) ==
    IF status.kind = "Exited" /\ status.code = 0 THEN Ok
    ELSE IF status.kind = "Exited" THEN CommandExitedWithError(status.code)
    ELSE Err("ContainerExitedAbnormally")

\* The match on the wait status.
TranslateStatus(status) ==
    IF status.kind = "Exited" /\ status.code = 0 THEN Ok
    ELSE IF status.kind = "Exited" /\ status.code = 242 THEN Err("ContainerSetupError")
    ELSE IF status.kind = "Exited" THEN CommandExitedWithError(status.code)
    ELSE Err("ContainerExitedAbnormally")

\* run_command after extract_image has returned x: `?` on its error, then
\* CString::new, then clone.
RcSpawn(x) ==
    IF x.result # Ok
    THEN /\ rc' = [rc EXCEPT !.pc = "done", !.result = x.result]
         /\ child' = NoChild
    ELSE IF HasNul(rc.command)
    THEN /\ rc' = [rc EXCEPT !.pc = "done", !.result = Err("InvalidCommand")]
         /\ child' = NoChild
    ELSE \/ /\ rc' = [rc EXCEPT !.pc = "done",
                                !.result = Err("ContainerExecutionError")]
            /\ child' = NoChild
         \/ /\ rc' = [rc EXCEPT !.pc = "wait", !.spawned = TRUE]
            /\ child' = [NoChild EXCEPT !.pc = 1, !.alive = TRUE,
                                        !.mounts = hostMounts,
                                        !.inherited = hostMounts,
                                        !.private = ~hostShared,
                                        !.image = x.path]

\* run_command up to clone: extract_image, CString::new, clone.
RcBegin ==
    /\ rc.pc = "call"
    /\ LET c == containers[rc.container]
           x == ExtractImage(extracted, images, c.image_name)
       IN /\ extracted' = x.es
          /\ RcSpawn(x)
    /\ UNCHANGED <<images, containers, cgroups, hostShared, hostMounts, cmd, uuids, ops, ex, tmpArchive, bld>>
    /\ UNCHANGED others

\* An unpack that writes somewhere else until it is complete.
Unpacking_Elsewhere(es, dest, part) == es

\* The extracted-image store while Archive::unpack is at work: the
\* destination directory is there, with the entries written so far.
Unpacking(es, dest, part) ==
    Put(es, dest, (IF dest \in DOMAIN es THEN es[dest] ELSE {}) \cup part)

\* run_command as another process can see it, first half: extract_image
\* misses, finds the image, and Archive::unpack has written a part of the
\* entries.
RcUnpack ==
    /\ rc.pc = "call"
    /\ LET c == containers[rc.container]
       IN /\ ~GetExtractedImage(extracted, c.image_name)
          /\ GetImage(images, c.image_name)
          /\ images[c.image_name].kind = "tar"
          /\ \E part \in SUBSET images[c.image_name].tree :
                /\ part # images[c.image_name].tree
                /\ extracted' = Unpacking(extracted, ImageName(c.image_name), part)
    /\ rc' = [rc EXCEPT !.pc = "unpack"]
    /\ UNCHANGED <<images, containers, cgroups, hostShared, hostMounts, cmd, child, uuids,
                   ops, ex, tmpArchive, bld>>
    /\ UNCHANGED others

\* Second half: the unpack is complete, extract_image returns, and
\* run_command goes on to clone.
RcUnpacked ==
    /\ rc.pc = "unpack"
    /\ LET c == containers[rc.container]
           x == [result |-> ExtractToResult(images[c.image_name]),
                 path |-> ImageName(c.image_name),
                 es |-> ExtractTo(extracted, ImageName(c.image_name),
                                  images[c.image_name])]
       IN /\ extracted' = x.es
          /\ RcSpawn(x)
    /\ UNCHANGED <<images, containers, cgroups, hostShared, hostMounts, cmd, uuids, ops, ex, tmpArchive, bld>>
    /\ UNCHANGED others

\* waitpid returns the status of the terminated child.
RcWait ==
    /\ rc.pc = "wait"
    /\ ~child.alive
    /\ rc' = [rc EXCEPT !.pc = "done", !.status = child.status,
                        !.result = TranslateStatus(child.status)]
    /\ UNCHANGED <<stores, cgroups, hostShared, hostMounts, cmd, child, uuids, ops, ex, tmpArchive, bld>>
    /\ UNCHANGED others

\* waitpid fails (ECHILD: the child was reaped because SIGCHLD is ignored).
RcWaitFails ==
    /\ rc.pc = "wait"
    /\ ~child.alive
    /\ rc' = [rc EXCEPT !.pc = "done", !.result = Err("ContainerExecutionError")]
    /\ UNCHANGED <<stores, cgroups, hostShared, hostMounts, cmd, child, uuids, ops, ex, tmpArchive, bld>>
    /\ UNCHANGED others

\* -------------------------------------------------- run_command: child

\* Container::mount_kernel_filesystems: the mounts array, in its order.
MountKernelFilesystems == <<"mount_proc", "mount_sysfs", "mount_tmpfs", "mount_devpts">>

\* Container::move_to_new_root
MoveToNewRoot == <<"mkdir_old_root", "pivot_root", "chdir">>

\* The body with the device nodes created after the pivot.
RunContainer_DevicesAfterPivot ==
    <<"cgroup_cpu", "cgroup_memory", "sethostname", "mount_private", "overlay">>
    \o MountKernelFilesystems \o MoveToNewRoot \o <<"create_devices">>
    \o <<"umount_old_root", "rmdir_old_root", "exec">>

\* The body without the private, recursive remount of /.
RunContainer_NoPrivateRemount ==
    <<"cgroup_cpu", "cgroup_memory", "sethostname", "overlay">>
    \o MountKernelFilesystems \o <<"create_devices">> \o MoveToNewRoot
    \o <<"umount_old_root", "rmdir_old_root", "exec">>

\* The try block of the run_container closure: each step is left by `?`
\* when it fails.
RunContainer ==
    <<"cgroup_cpu", "cgroup_memory", "sethostname", "mount_private", "overlay">>
    \o MountKernelFilesystems \o <<"create_devices">> \o MoveToNewRoot
    \o <<"umount_old_root", "rmdir_old_root", "exec">>

\* The mount a step makes in the child's mount namespace.
StepMount(step, name) ==
    CASE step = "overlay" -> {<<"overlay">> \o name}
      [] step = "mount_proc" -> {<<"proc">> \o name}
      [] step = "mount_sysfs" -> {<<"sysfs">> \o name}
      [] step = "mount_tmpfs" -> {<<"tmpfs">> \o name}
      [] step = "mount_devpts" -> {<<"devpts">> \o name}
      [] OTHER -> {}

\* Container::setup_cgroup: the directory the step creates.
StepCgroup(step, name) ==
    CASE step = "cgroup_cpu" -> {<<"cpu">> \o name}
      [] step = "cgroup_memory" -> {<<"memory">> \o name}
      [] OTHER -> {}

\* What a step leaves in the container directory: setup_overlay creates
\* cow_rw, cow_workdir and rootfs; create_devices the nodes; move_to_new_root
\* rootfs/old_root, which the closure removes after the pivot.
StepDir(step, c) ==
    CASE step = "overlay" -> [c EXCEPT !.dirs = TRUE]
      [] step = "create_devices" -> [c EXCEPT !.devices = TRUE]
      [] step = "mkdir_old_root" -> [c EXCEPT !.old_root = TRUE]
      [] step = "rmdir_old_root" -> [c EXCEPT !.old_root = FALSE]
      [] OTHER -> c

\* The tree seen at rootfs while the overlay is mounted: the extracted
\* image below, the container's cow_rw above (the files written, old_root
\* while it exists, and the device nodes once created).
Merged(c, lower) ==
    ((lower \ c.removed) \cup c.added)
       \cup (IF c.old_root THEN {"old_root"} ELSE {})
       \cup (IF c.devices THEN DeviceNodes ELSE {})

\* What the kernel requires of a step: fs::create_dir fails on an existing
\* directory; pivot_root fails (EINVAL) while the root mount is shared.
StepCanSucceed(step, c, ch, lower) ==
    CASE step = "mkdir_old_root" -> "old_root" \notin Merged(c, lower)
      [] step = "pivot_root" -> ch.private
      [] OTHER -> TRUE

\* A mount made in a namespace whose mounts are still shared with the host
\* propagates to the host's table.
Propagate(ch, host, mnt) == IF ch.private THEN host ELSE host \cup mnt

\* One step of the child body succeeds.
ChildStepOk ==
    /\ child.alive
    /\ child.pc \in 1..Len(RunContainer)
    /\ LET step == RunContainer[child.pc]
           name == rc.container
           c == containers[name]
           mnt == StepMount(step, name)
       IN /\ StepCanSucceed(step, c, child, extracted[child.image])
          /\ child' = [child EXCEPT
                         !.pc = @ + 1,
                         !.events = Append(@, step),
                         !.private = @ \/ step = "mount_private",
                         !.mounts = IF step = "umount_old_root"
                                    THEN @ \ child.inherited ELSE @ \cup mnt,
                         !.executed = @ \/ step = "exec"]
          /\ hostMounts' = Propagate(child, hostMounts, mnt)
          /\ containers' = Put(containers, name, StepDir(step, c))
          /\ cgroups' = cgroups \cup StepCgroup(step, name)
    /\ UNCHANGED <<images, extracted, hostShared, cmd, rc, uuids, ops, ex, tmpArchive, bld>>
    /\ UNCHANGED others

\* A failing step whose error is dropped: the body goes on.
ChildStepFails_Ignored ==
    /\ child.alive
    /\ child.pc \in 1..Len(RunContainer)
    /\ child' = [child EXCEPT !.pc = @ + 1, !.failed = child.pc]
    /\ UNCHANGED <<stores, cgroups, hostShared, hostMounts, cmd, rc, uuids, ops, ex, tmpArchive, bld>>
    /\ UNCHANGED others

\* One step of the child body fails: the closure prints the chain of causes
\* and calls std::process::exit(242); the mount namespace dissolves.
ChildStepFails ==
    /\ child.alive
    /\ child.pc \in 1..Len(RunContainer)
    /\ child' = [child EXCEPT !.alive = FALSE, !.status = Exited(SetupFailureCode),
                              !.failed = child.pc, !.mounts = {}]
    /\ UNCHANGED <<stores, cgroups, hostShared, hostMounts, cmd, rc, uuids, ops, ex, tmpArchive, bld>>
    /\ UNCHANGED others

\* The child is killed by a signal, during setup or while the command runs.
ChildKilled ==
    /\ child.alive
    /\ child' = [child EXCEPT !.alive = FALSE, !.status = Signaled, !.mounts = {}]
    /\ UNCHANGED <<stores, cgroups, hostShared, hostMounts, cmd, rc, uuids, ops, ex, tmpArchive, bld>>
    /\ UNCHANGED others

\* /bin/sh -c <command>: what the command does to the merged root (upper
\* layer of the overlay) and the code it exits with.
CommandExit(command) ==
    CASE command \in {<<"true">>, <<"touch_a">>, <<"touch_b">>, <<"rm_a">>,
                      <<"rm_a_l">>, <<"mount_x">>} -> 0
      [] command = <<"exit1">> -> 1
      [] command = <<"exit242">> -> 242
      [] OTHER -> 127

CommandMount(command, name) ==
    IF command = <<"mount_x">> THEN {<<"user">> \o name} ELSE {}

Touch(c, f) == [c EXCEPT !.added = @ \cup {f}, !.removed = @ \ {f}]

Remove(c, lower, f) ==
    [c EXCEPT !.added = @ \ {f}, !.removed = IF f \in lower THEN @ \cup {f} ELSE @]

CommandWrites(command, c, lower) ==
    CASE command = <<"touch_a">> -> Touch(c, "a")
      [] command = <<"touch_b">> -> Touch(c, "b")
      [] command = <<"rm_a">> -> Remove(c, lower, "a")
      [] command = <<"rm_a_l">> -> Remove(Remove(c, lower, "a"), lower, "l")
      [] OTHER -> c

\* The exec'ed command runs to its end.
CommandRuns ==
    /\ child.alive
    /\ child.pc = Len(RunContainer) + 1
    /\ LET name == rc.container
           mnt == CommandMount(rc.command, name)
       IN /\ containers' = Put(containers, name,
                 CommandWrites(rc.command, containers[name], extracted[child.image]))
          /\ hostMounts' = Propagate(child, hostMounts, mnt)
          /\ child' = [child EXCEPT !.alive = FALSE, !.mounts = {},
                                    !.status = Exited(CommandExit(rc.command))]
    /\ UNCHANGED <<images, extracted, cgroups, hostShared, cmd, rc, uuids, ops, ex, tmpArchive, bld>>
    /\ UNCHANGED others

\* ----------------------------------------------------- export_as_image

\* No file under /tmp.
NoTmp == <<>>

\* A temporary path of its own for every container.
TempArchivePath_PerContainer(container) == <<"/tmp/">> \o container \o <<".tar.gz">>

\* temp_archive_path in export_as_image: the same path for every container.
TempArchivePath(container) == <<"/tmp/image.tar.gz">>

IdleEx == [pc |-> "idle", caller |-> "none", container |-> <<>>, name |-> <<>>,
           image |-> <<>>, result |-> Ok, mounted |-> FALSE,
           extAtCall |-> {}, imgAtCall |-> {}, mountsAtCall |-> {}]

CallEx(caller, container, name) ==
    [IdleEx EXCEPT !.pc = "call", !.caller = caller, !.container = container,
                   !.name = name, !.extAtCall = DOMAIN extracted,
                   !.imgAtCall = DOMAIN images, !.mountsAtCall = hostMounts]

\* export_as_image up to the archive: extract_image, then setup_overlay in
\* the host namespace.
ExBegin ==
    /\ ex.pc = "call"
    /\ LET name == ex.container
           c == containers[name]
           x == ExtractImage(extracted, images, c.image_name)
       IN /\ extracted' = x.es
          /\ IF x.result # Ok
             THEN /\ ex' = [ex EXCEPT !.pc = "done", !.result = x.result]
                  /\ UNCHANGED <<containers, hostMounts>>
             ELSE /\ containers' = Put(containers, name, [c EXCEPT !.dirs = TRUE])
                  /\ \/ /\ ex' = [ex EXCEPT !.pc = "done",
                                            !.result = Err("ContainerSetupError")]
                        /\ UNCHANGED hostMounts
                     \/ /\ ex' = [ex EXCEPT !.pc = "archive", !.image = x.path,
                                            !.mounted = TRUE]
                        /\ hostMounts' = hostMounts \cup {<<"overlay">> \o name}
    /\ UNCHANGED <<images, cgroups, hostShared, cmd, rc, child, tmpArchive, bld, uuids, ops>>
    /\ UNCHANGED others

\* An archive of every entry of the merged tree, whatever its file type.
AppendFiles_All(c, lower) == Merged(c, lower)

\* An archive of the container's own layer only.
AppendFiles_UpperOnly(c, lower) == c.added

\* Container::append_files over rootfs: the entries of the merged tree whose
\* file type is regular file, directory or symlink, under their paths
\* relative to rootfs.
AppendFiles(c, lower) ==
    {e \in Merged(c, lower) : FileType(e) \in {"file", "dir", "symlink"}}

\* The archive block: File::create of /tmp/image.tar.gz, then the walk.
ExArchive ==
    /\ ex.pc = "archive"
    /\ \/ /\ tmpArchive' = Put(tmpArchive, TempArchivePath(ex.container),
                                 Archive(AppendFiles(containers[ex.container],
                                                     extracted[ex.image])))
          /\ ex' = [ex EXCEPT !.pc = "umount"]
       \/ /\ tmpArchive' \in {tmpArchive,
                               Put(tmpArchive, TempArchivePath(ex.container), Corrupt)}
          /\ ex' = [ex EXCEPT !.pc = "done", !.result = Err("ArchiveError")]
    /\ UNCHANGED <<stores, cgroups, hostShared, hostMounts, cmd, rc, child, bld, uuids, ops>>
    /\ UNCHANGED others

\* umount(rootfs)
ExUmount ==
    /\ ex.pc = "umount"
    /\ \/ /\ hostMounts' = hostMounts \ {<<"overlay">> \o ex.container}
          /\ ex' = [ex EXCEPT !.pc = "import", !.mounted = FALSE]
       \/ /\ ex' = [ex EXCEPT !.pc = "done", !.result = Err("ContainerSetupError")]
          /\ UNCHANGED hostMounts
    /\ UNCHANGED <<stores, cgroups, hostShared, cmd, rc, child, tmpArchive, bld, uuids, ops>>
    /\ UNCHANGED others

\* import_image(name, /tmp/image.tar.gz), then remove_file.  fs::copy fails
\* when the file is not there.
ExImport ==
    /\ ex.pc = "import"
    /\ \/ /\ images' \in ImportFailures(images, ex.name)
          /\ ex' = [ex EXCEPT !.pc = "done", !.result = Err("ExportError")]
          /\ UNCHANGED tmpArchive
       \/ /\ TempArchivePath(ex.container) \in DOMAIN tmpArchive
          /\ images' = ImportImage(images, ex.name,
                                   tmpArchive[TempArchivePath(ex.container)])
          /\ \/ /\ ex' = [ex EXCEPT !.pc = "done", !.result = Err("ArchiveError")]
                /\ UNCHANGED tmpArchive
             \/ /\ ex' = [ex EXCEPT !.pc = "done", !.result = Ok]
                /\ tmpArchive' = Drop(tmpArchive, TempArchivePath(ex.container))
    /\ UNCHANGED <<extracted, containers, cgroups, hostShared, hostMounts, cmd, rc,
                   child, bld, uuids, ops>>
    /\ UNCHANGED others

\* ------------------------------------------------ jocker invocations

Idle == [kind |-> "idle", exit |-> 0]

\* A second jocker process that has not started anything.
NoOthers == [cmd |-> Idle, rc |-> IdleRc, child |-> NoChild, ex |-> IdleEx]

\* The scheduler stops the running jocker process and resumes the other one.
Switch ==
    /\ others # [cmd |-> cmd, rc |-> rc, child |-> child, ex |-> ex]
    /\ cmd' = others.cmd
    /\ rc' = others.rc
    /\ child' = others.child
    /\ ex' = others.ex
    /\ others' = [cmd |-> cmd, rc |-> rc, child |-> child, ex |-> ex]
    /\ UNCHANGED <<stores, cgroups, hostShared, hostMounts, tmpArchive, bld, uuids, ops>>

\* The filter of `jocker run --name`: alphanumeric characters and dashes.
IsAlnumOrDash(sym) == sym \notin {".", "/", " ", "tab", "nul", "_"}
Sanitize(name) == SelectSeq(name, IsAlnumOrDash)

\* The components of a path given as a sequence of characters, as
\* Path::components yields them: the pieces between the separators, without
\* the empty pieces and the pieces ".".
RECURSIVE Components(_, _, _)
Components(name, i, piece) ==
    LET done == IF piece \in {<<>>, <<".">>} THEN <<>> ELSE <<piece>>
    IN IF i > Len(name) THEN done
       ELSE IF name[i] = "/" THEN done \o Components(name, i + 1, <<>>)
       ELSE Components(name, i + 1, Append(piece, name[i]))

\* Path::join: a path that starts with a separator replaces the base, any
\* other one adds its components to it; the empty path adds none.
JoinPath(base, name) ==
    IF name # <<>> /\ name[1] = "/" THEN Components(name, 1, <<>>)
    ELSE base \o Components(name, 1, <<>>)

\* The root of the container store under the home directory.
ContainersDir == <<<<".jocker">>, <<"containers">>>>

\* commands::run up to the call of run_command, with a --name, an image and
\* a command of the given sets.
Run(names, imageArgs, commands) ==
    /\ cmd.kind = "idle"
    /\ ops < MaxOps
    /\ \E named \in BOOLEAN, n \in names, image \in imageArgs,
          command \in commands, created \in BOOLEAN :
          LET id == IF named THEN Sanitize(n) ELSE UuidName(uuids + 1)
          IN /\ uuids' = IF named THEN uuids ELSE uuids + 1
             /\ IF created
                THEN /\ containers' = CreateContainer(containers, id, image)
                     /\ cmd' = [kind |-> "run", exit |-> 0]
                     /\ rc' = CallRc("run", id, command)
                ELSE /\ containers' \in CreateFailures(containers, id, image)
                     /\ cmd' = [kind |-> "idle", exit |-> 1]
                     /\ UNCHANGED rc
    /\ ops' = ops + 1
    /\ UNCHANGED <<images, extracted, cgroups, hostShared, hostMounts, child, ex, tmpArchive, bld>>
    /\ UNCHANGED others

CmdRun == Run(RunNameArgs, ImageArgs, RunCommands)

\* A run of the image base under a name the user chose freely.
CmdRunNamed == Run(NamedRunArgs, {<<"base">>}, {<<"true">>})

\* commands::containers::start up to the call of run_command, on a container
\* and with a command of the given sets.
Start(names, commands) ==
    /\ cmd.kind = "idle"
    /\ ops < MaxOps
    /\ \E n \in names, command \in commands :
          IF GetContainer(containers, n)
          THEN /\ cmd' = [kind |-> "start", exit |-> 0]
               /\ rc' = CallRc("start", n, command)
          ELSE /\ cmd' = [kind |-> "idle", exit |-> 101]
               /\ UNCHANGED rc
    /\ ops' = ops + 1
    /\ UNCHANGED <<stores, cgroups, hostShared, hostMounts, child, uuids, ex, tmpArchive, bld>>
    /\ UNCHANGED others

CmdStart == Start(RunNameArgs, RunCommands)

\* A start by one of two processes that start containers at the same time.
CmdStartConcurrent == Start(ConcurrentNames, ConcurrentCommands)

\* run / start after run_command has returned; main exits with 1 on an error.
CmdReturn ==
    /\ cmd.kind \in {"run", "start"}
    /\ rc.pc = "done"
    /\ cmd' = [kind |-> "idle", exit |-> IF rc.result = Ok THEN 0 ELSE 1]
    /\ rc' = IdleRc
    /\ child' = NoChild
    /\ UNCHANGED <<stores, cgroups, hostShared, hostMounts, uuids, ops, ex, tmpArchive, bld>>
    /\ UNCHANGED others

\* commands::images::import
CmdImport ==
    /\ cmd.kind = "idle"
    /\ ops < MaxOps
    /\ \E name \in ImageArgs, tarball \in Tarballs :
          images' = ImportImage(images, name, tarball)
    /\ cmd' = Idle
    /\ ops' = ops + 1
    /\ UNCHANGED <<extracted, containers, cgroups, hostShared, hostMounts, rc, child, uuids, ex, tmpArchive, bld>>
    /\ UNCHANGED others

\* commands::images::remove
CmdImageRemove ==
    /\ cmd.kind = "idle"
    /\ ops < MaxOps
    /\ \E name \in ImageArgs :
          images' = IF GetImage(images, name) THEN Drop(images, name) ELSE images
    /\ cmd' = Idle
    /\ ops' = ops + 1
    /\ UNCHANGED <<extracted, containers, cgroups, hostShared, hostMounts, rc, child, uuids, ex, tmpArchive, bld>>
    /\ UNCHANGED others

\* commands::containers::remove
CmdContainerRemove ==
    /\ cmd.kind = "idle"
    /\ ops < MaxOps
    /\ \E name \in RunNameArgs :
          containers' = IF GetContainer(containers, name)
                        THEN Drop(containers, name) ELSE containers
    /\ cmd' = Idle
    /\ ops' = ops + 1
    /\ UNCHANGED <<images, extracted, cgroups, hostShared, hostMounts, rc, child, uuids, ex, tmpArchive, bld>>
    /\ UNCHANGED others

\* A caller of the library's export_as_image on a stored container, with a
\* name of the given set.
Export(names) ==
    /\ cmd.kind = "idle"
    /\ ops < MaxOps
    /\ \E n \in DOMAIN containers, name \in names :
          /\ GetContainer(containers, n)
          /\ ex' = CallEx("api", n, name)
    /\ cmd' = [kind |-> "export", exit |-> 0]
    /\ ops' = ops + 1
    /\ UNCHANGED <<stores, cgroups, hostShared, hostMounts, rc, child, tmpArchive, bld, uuids>>
    /\ UNCHANGED others

CallExport == Export(ExportNames)

\* An export by one of two processes that export at the same time.
CallExportConcurrent == Export(ConcurrentExportNames)

ExportReturn ==
    /\ cmd.kind = "export"
    /\ ex.pc = "done"
    /\ cmd' = [kind |-> "idle", exit |-> IF ex.result = Ok THEN 0 ELSE 1]
    /\ ex' = IdleEx
    /\ UNCHANGED <<stores, cgroups, hostShared, hostMounts, rc, child, tmpArchive, bld,
                   uuids, ops>>
    /\ UNCHANGED others

\* ------------------------------------------- callers of ContainerStore

\* The last call of a caller of the library on the container store.
StoreCall(call, name, image_name, value) ==
    [kind |-> "store", exit |-> 0, call |-> call, name |-> name,
     image_name |-> image_name, value |-> value]

\* ContainerStore::create_container
StoreCreate ==
    /\ cmd.kind \in {"idle", "store"}
    /\ ops < MaxOps
    /\ \E name \in ConfigNames, image_name \in ConfigImageNames :
          \/ /\ containers' = CreateContainer(containers, name, image_name)
             /\ cmd' = StoreCall("create", name, image_name, NoContainer)
          \/ /\ containers' \in CreateFailures(containers, name, image_name)
             /\ cmd' = StoreCall("create failed", name, image_name, NoContainer)
    /\ ops' = ops + 1
    /\ UNCHANGED <<images, extracted, cgroups, hostShared, hostMounts, rc, child, ex,
                   tmpArchive, bld, uuids>>
    /\ UNCHANGED others

\* ContainerStore::get_container
StoreGet ==
    /\ cmd.kind \in {"idle", "store"}
    /\ ops < MaxOps
    /\ \E name \in ConfigNames :
          cmd' = StoreCall("get", name, <<>>, GetContainerValue(containers, name))
    /\ ops' = ops + 1
    /\ UNCHANGED <<stores, cgroups, hostShared, hostMounts, rc, child, ex, tmpArchive,
                   bld, uuids>>
    /\ UNCHANGED others

\* ContainerStore::remove_container on a container get_container returned.
StoreRemove ==
    /\ cmd.kind \in {"idle", "store"}
    /\ ops < MaxOps
    /\ \E name \in ConfigNames :
          /\ GetContainer(containers, name)
          /\ containers' = Drop(containers, name)
          /\ cmd' = StoreCall("remove", name, <<>>, NoContainer)
    /\ ops' = ops + 1
    /\ UNCHANGED <<images, extracted, cgroups, hostShared, hostMounts, rc, child, ex,
                   tmpArchive, bld, uuids>>
    /\ UNCHANGED others

\* Someone else than jocker writes the config.json of a container directory,
\* making the directory when it is not there.
WriteConfig ==
    /\ cmd.kind \in {"idle", "store"}
    /\ ops < MaxOps
    /\ \E name \in ConfigNames, text \in ConfigTexts :
          /\ containers' =
                Put(containers, name,
                    [(IF name \in DOMAIN containers THEN containers[name]
                      ELSE NewContainerDir(name, <<>>))
                     EXCEPT !.config = "present", !.json = text,
                            !.name = FromReader(text).name,
                            !.image_name = FromReader(text).image_name])
          /\ cmd' = StoreCall("write", name, <<>>, NoContainer)
    /\ ops' = ops + 1
    /\ UNCHANGED <<images, extracted, cgroups, hostShared, hostMounts, rc, child, ex,
                   tmpArchive, bld, uuids>>
    /\ UNCHANGED others

\* ------------------------------------------------------- ImageBuilder

IsWhitespace(sym) == sym \in {" ", "tab"}

\* str::split_ascii_whitespace: the maximal runs of non-whitespace.
RECURSIVE SplitWs(_, _, _)
SplitWs(line, cur, acc) ==
    IF line = <<>>
    THEN IF cur = <<>> THEN acc ELSE Append(acc, cur)
    ELSE IF IsWhitespace(Head(line))
    THEN SplitWs(Tail(line), <<>>, IF cur = <<>> THEN acc ELSE Append(acc, cur))
    ELSE SplitWs(Tail(line), Append(cur, Head(line)), acc)

SplitAsciiWhitespace(line) == SplitWs(line, <<>>, <<>>)

\* str::splitn(2, ' '): the text before the first space and, when there is a
\* space, the text after it.
FirstSpace(line) ==
    IF " " \in Range(line)
    THEN CHOOSE i \in 1..Len(line) : line[i] = " " /\ \A j \in 1..(i-1) : line[j] # " "
    ELSE 0

Splitn2(line) ==
    IF FirstSpace(line) = 0 THEN <<line>>
    ELSE <<SubSeq(line, 1, FirstSpace(line) - 1),
           SubSeq(line, FirstSpace(line) + 1, Len(line))>>

BuildOk == [err |-> "Ok", cause |-> Ok, token |-> <<>>]
BuildErr(e) == [err |-> e, cause |-> Ok, token |-> <<>>]
IntermediateContainerError(cause) ==
    [err |-> "IntermediateContainerError", cause |-> cause, token |-> <<>>]
InvalidCommand(token) == [err |-> "InvalidCommand", cause |-> Ok, token |-> token]
Panic(msg) == [err |-> "panic", cause |-> Err(msg), token |-> <<>>]

\* The filter of build: lines that are not the empty string.
NonEmptyLines(lines) == SelectSeq(lines, LAMBDA l : l # <<>>)

\* A parser that takes any first line for FROM base.
ParseFromDirective_Lenient(lines) ==
    IF lines = <<>> THEN [result |-> BuildErr("EmptyBuildScript"), base |-> <<>>]
    ELSE [result |-> BuildOk, base |-> <<"base">>]

\* ImageBuilder::parse_from_directive on the filtered lines.
ParseFromDirective(lines) ==
    IF lines = <<>> THEN [result |-> BuildErr("EmptyBuildScript"), base |-> <<>>]
    ELSE LET from_line == SplitAsciiWhitespace(Head(lines))
         IN IF Len(from_line) >= 1 /\ from_line[1] = <<"FROM">>
            THEN IF Len(from_line) >= 2
                 THEN [result |-> BuildOk, base |-> from_line[2]]
                 ELSE [result |-> BuildErr("InvalidFromDirective"), base |-> <<>>]
            ELSE [result |-> BuildErr("MissingFromDirective"), base |-> <<>>]

\* A parser that takes the first token for RUN and what follows it for the
\* arguments.
ParseCommand_AnyToken(line) ==
    [result |-> BuildOk, args |-> IF Len(Splitn2(line)) = 2 THEN Splitn2(line)[2] ELSE <<>>]

\* ImageBuilder::parse_command
ParseCommand(line) ==
    LET pieces == Splitn2(line)
    IN IF pieces[1] = <<"RUN">>
       THEN IF Len(pieces) = 2 /\ pieces[2] # <<>>
            THEN [result |-> BuildOk, args |-> pieces[2]]
            ELSE [result |-> BuildErr("InvalidArguments(1, 0)"), args |-> <<>>]
       ELSE [result |-> InvalidCommand(pieces[1]), args |-> <<>>]

\* A copy that takes the archive of the FROM image of the build.
CopyImage_Stale(is, name, src) ==
    IF name = src THEN Put(is, name, Corrupt) ELSE ImportImage(is, name, BaseImage)

\* ImageStore::copy_image: import_image of the source image's archive.  A
\* copy of an archive onto itself leaves the file truncated.
CopyImage(is, name, src) ==
    IF name = src THEN Put(is, name, Corrupt) ELSE ImportImage(is, name, is[src])

IdleBld == [pc |-> "idle", script |-> <<>>, lines |-> <<>>, base_image |-> <<>>,
            from |-> <<>>, named |-> FALSE, name |-> <<>>, container |-> <<>>,
            created |-> <<>>, ran |-> <<>>, exported |-> <<>>, result |-> BuildOk,
            cerr |-> Ok,
            imagesAtCall |-> <<>>, containersAtCall |-> {}]

\* build up to the loop, on a script of the given set: the lines are
\* collected and filtered, and the FROM directive is parsed.
Build(scripts) ==
    /\ cmd.kind = "idle"
    /\ ops = 0
    /\ \E script \in scripts, named \in BOOLEAN, name \in FinalNames :
          LET lines == NonEmptyLines(script)
              f == ParseFromDirective(lines)
              b == [IdleBld EXCEPT !.script = script, !.named = named,
                                   !.name = IF named THEN name ELSE <<>>,
                                   !.imagesAtCall = images,
                                   !.containersAtCall = DOMAIN containers]
          IN bld' = IF f.result # BuildOk
                    THEN [b EXCEPT !.pc = "done", !.result = f.result]
                    ELSE [b EXCEPT !.pc = "loop", !.lines = Tail(lines),
                                   !.base_image = f.base, !.from = f.base]
    /\ cmd' = [kind |-> "build", exit |-> 0]
    /\ ops' = ops + 1
    /\ UNCHANGED <<stores, cgroups, hostShared, hostMounts, rc, child, ex, tmpArchive, uuids>>
    /\ UNCHANGED others

\* A build of a script of RUN steps.
CmdBuild == Build(Scripts)

\* A build of a script that tries the parser.
CmdBuildScript == Build(ParseScripts)

\* A turn of the loop that parses the line before it creates the container.
BuildStep_ParseFirst ==
    /\ bld.pc = "loop"
    /\ bld.lines # <<>>
    /\ uuids' = uuids + 1
    /\ LET id == UuidName(uuids + 1)
           p == ParseCommand(Head(bld.lines))
           b == [bld EXCEPT !.lines = Tail(@), !.container = id]
       IN IF p.result # BuildOk
          THEN /\ bld' = [b EXCEPT !.pc = "done", !.result = p.result]
               /\ UNCHANGED <<containers, rc>>
          ELSE /\ containers' = CreateContainer(containers, id, bld.base_image)
               /\ bld' = [b EXCEPT !.pc = "run", !.ran = Append(@, id),
                                   !.created = Append(@, [container |-> id,
                                                          image_name |-> bld.base_image])]
               /\ rc' = CallRc("build", id, p.args)
    /\ UNCHANGED <<images, extracted, cgroups, hostShared, hostMounts, cmd, child, ex,
                   tmpArchive, ops, others>>

\* One turn of the loop up to run_command: create_container with a fresh
\* identifier and the current base image, then parse_command, then
\* execute_command.
BuildStep ==
    /\ bld.pc = "loop"
    /\ bld.lines # <<>>
    /\ uuids' = uuids + 1
    /\ LET id == UuidName(uuids + 1)
           p == ParseCommand(Head(bld.lines))
           b == [bld EXCEPT !.lines = Tail(@), !.container = id]
       IN \/ /\ bld' = [b EXCEPT !.pc = "done", !.cerr = Err("CreationError"),
                     !.result = IntermediateContainerError(Err("CreationError"))]
             /\ containers' \in CreateFailures(containers, id, bld.base_image)
             /\ UNCHANGED rc
          \/ /\ containers' = CreateContainer(containers, id, bld.base_image)
             /\ IF p.result # BuildOk
                THEN /\ bld' = [b EXCEPT !.pc = "done", !.result = p.result,
                                !.created = Append(@, [container |-> id,
                                                       image_name |-> bld.base_image])]
                     /\ UNCHANGED rc
                ELSE /\ bld' = [b EXCEPT !.pc = "run", !.ran = Append(@, id),
                                !.created = Append(@, [container |-> id,
                                                       image_name |-> bld.base_image])]
                     /\ rc' = CallRc("build", id, p.args)
    /\ UNCHANGED <<images, extracted, cgroups, hostShared, hostMounts, cmd, child, ex,
                   tmpArchive, ops>>
    /\ UNCHANGED others

\* The result of execute_command is dropped: the container is exported
\* whatever the command did.
BuildAfterRun_IgnoresError ==
    /\ bld.pc = "run"
    /\ rc.pc = "done"
    /\ rc' = IdleRc
    /\ child' = NoChild
    /\ bld' = [bld EXCEPT !.pc = "export"]
    /\ ex' = CallEx("build", bld.container, UuidName(uuids + 1))
    /\ uuids' = uuids + 1
    /\ UNCHANGED <<stores, cgroups, hostShared, hostMounts, cmd, tmpArchive, ops>>
    /\ UNCHANGED others

\* execute_command has returned: an error is returned as
\* IntermediateContainerError; otherwise export_as_image is called with a
\* fresh identifier.
BuildAfterRun ==
    /\ bld.pc = "run"
    /\ rc.pc = "done"
    /\ rc' = IdleRc
    /\ child' = NoChild
    /\ IF rc.result # Ok
       THEN /\ bld' = [bld EXCEPT !.pc = "done", !.cerr = rc.result,
                                  !.result = IntermediateContainerError(rc.result)]
            /\ UNCHANGED <<ex, uuids>>
       ELSE /\ bld' = [bld EXCEPT !.pc = "export"]
            /\ ex' = CallEx("build", bld.container, UuidName(uuids + 1))
            /\ uuids' = uuids + 1
    /\ UNCHANGED <<stores, cgroups, hostShared, hostMounts, cmd, tmpArchive, ops>>
    /\ UNCHANGED others

\* The exported image is not made the base image of the next step.
BuildAfterExport_KeepsBase ==
    /\ bld.pc = "export"
    /\ ex.pc = "done"
    /\ ex' = IdleEx
    /\ bld' = IF ex.result # Ok
              THEN [bld EXCEPT !.pc = "done", !.cerr = ex.result,
                               !.result = Panic("cannot export")]
              ELSE [bld EXCEPT !.pc = "loop",
                               !.exported = Append(@, [container |-> ex.container,
                                                       image |-> ex.name])]
    /\ UNCHANGED <<stores, cgroups, hostShared, hostMounts, cmd, rc, child, tmpArchive,
                   uuids, ops>>
    /\ UNCHANGED others

\* export_as_image has returned: .expect("cannot export") panics on an
\* error; otherwise the exported image becomes the base image.
BuildAfterExport ==
    /\ bld.pc = "export"
    /\ ex.pc = "done"
    /\ ex' = IdleEx
    /\ bld' = IF ex.result # Ok
              THEN [bld EXCEPT !.pc = "done", !.cerr = ex.result,
                               !.result = Panic("cannot export")]
              ELSE [bld EXCEPT !.pc = "loop", !.base_image = ex.name,
                               !.exported = Append(@, [container |-> ex.container,
                                                       image |-> ex.name])]
    /\ UNCHANGED <<stores, cgroups, hostShared, hostMounts, cmd, rc, child, tmpArchive,
                   uuids, ops>>
    /\ UNCHANGED others

\* After the loop: with a final name, get_image of the base image and
\* copy_image under the name.
BuildFinal ==
    /\ bld.pc = "loop"
    /\ bld.lines = <<>>
    /\ IF ~bld.named
       THEN /\ bld' = [bld EXCEPT !.pc = "done", !.result = BuildOk]
            /\ UNCHANGED images
       ELSE IF ~GetImage(images, bld.base_image)
       THEN /\ bld' = [bld EXCEPT !.pc = "done",
                                  !.result = Panic("cannot find the built image")]
            /\ UNCHANGED images
       ELSE \/ /\ images' \in ImportFailures(images, bld.name)
               /\ bld' = [bld EXCEPT !.pc = "done",
                                     !.result = BuildErr("CannotCreateResultingImage")]
            \/ /\ images[bld.base_image].kind # "absent"
               /\ images' = CopyImage(images, bld.name, bld.base_image)
               /\ bld' = [bld EXCEPT !.pc = "done", !.result = BuildOk]
    /\ UNCHANGED <<extracted, containers, cgroups, hostShared, hostMounts, cmd, rc, child,
                   ex, tmpArchive, uuids, ops>>
    /\ UNCHANGED others

\* commands::images::build returns to main: exit code 1 on an error, 101
\* on a panic.
CmdBuildReturn ==
    /\ cmd.kind = "build"
    /\ bld.pc = "done"
    /\ cmd' = [kind |-> "idle",
               exit |-> IF bld.result = BuildOk THEN 0
                        ELSE IF bld.result.err = "panic" THEN 101 ELSE 1]
    /\ bld' = IdleBld
    /\ UNCHANGED <<stores, cgroups, hostShared, hostMounts, rc, child, ex, tmpArchive,
                   uuids, ops>>
    /\ UNCHANGED others

\* ------------------------------------------------------ specification


Init ==
    /\ images = (<<"base">> :> BaseImage)
    /\ extracted = <<>>
    /\ containers = <<>>
    /\ cgroups = {}
    /\ hostShared \in BOOLEAN
    /\ hostMounts = {<<"/">>}
    /\ cmd = Idle
    /\ rc = IdleRc
    /\ child = NoChild
    /\ ex = IdleEx
    /\ tmpArchive = NoTmp
    /\ bld = IdleBld
    /\ uuids = 0
    /\ ops = 0
    /\ others = NoOthers

Next ==
    \/ RcBegin
    \/ RcWait
    \/ RcWaitFails
    \/ ChildStepOk
    \/ ChildStepFails
    \/ ChildKilled
    \/ CommandRuns
    \/ CmdRun
    \/ CmdStart
    \/ CmdReturn
    \/ CmdImport
    \/ CmdImageRemove
    \/ CmdContainerRemove
    \/ CallExport
    \/ ExportReturn
    \/ ExBegin
    \/ ExArchive
    \/ ExUmount
    \/ ExImport

Spec == Init /\ [][Next]_vars

\* One build, started from a store that earlier invocations may have left:
\* the base image imported, possibly extracted already, possibly with an
\* image under the final name.  The host's / is shared, as it is under
\* systemd.
InitBuild ==
    /\ images \in {(<<"base">> :> BaseImage),
                    (<<"base">> :> BaseImage) @@ (<<"out">> :> Archive({"b"}))}
    /\ extracted \in {<<>>, (<<"base">> :> BaseImage.tree)}
    /\ containers = <<>>
    /\ cgroups = {}
    /\ hostShared = TRUE
    /\ hostMounts = {<<"/">>}
    /\ cmd = Idle
    /\ rc = IdleRc
    /\ child = NoChild
    /\ ex = IdleEx
    /\ tmpArchive = NoTmp
    /\ bld = IdleBld
    /\ uuids = 0
    /\ ops = 0
    /\ others = NoOthers

NextBuild ==
    \/ CmdBuild
    \/ BuildStep
    \/ BuildAfterRun
    \/ BuildAfterExport
    \/ BuildFinal
    \/ CmdBuildReturn
    \/ RcBegin
    \/ RcWait
    \/ RcWaitFails
    \/ ChildStepOk
    \/ ChildStepFails
    \/ ChildKilled
    \/ CommandRuns
    \/ ExBegin
    \/ ExArchive
    \/ ExUmount
    \/ ExImport

SpecBuild == InitBuild /\ [][NextBuild]_vars

\* One build of a script that tries the parser, from a store that holds the
\* base image only.
InitScript ==
    /\ InitBuild
    /\ DOMAIN images = {<<"base">>}
    /\ extracted = <<>>

NextScript ==
    \/ CmdBuildScript
    \/ BuildStep
    \/ BuildAfterRun
    \/ BuildAfterExport
    \/ BuildFinal
    \/ CmdBuildReturn
    \/ RcBegin
    \/ RcWait
    \/ RcWaitFails
    \/ ChildStepOk
    \/ ChildStepFails
    \/ ChildKilled
    \/ CommandRuns
    \/ ExBegin
    \/ ExArchive
    \/ ExUmount
    \/ ExImport

SpecScript == InitScript /\ [][NextScript]_vars

\* Invocations on stores that earlier invocations have left with two images,
\* base and base.v2, and with base extracted.
InitCache ==
    /\ images = (<<"base">> :> BaseImage) @@ (<<"base", ".", "v2">> :> Archive({"a"}))
    /\ extracted = (<<"base">> :> BaseImage.tree)
    /\ containers = <<>>
    /\ cgroups = {}
    /\ hostShared = TRUE
    /\ hostMounts = {<<"/">>}
    /\ cmd = Idle
    /\ rc = IdleRc
    /\ child = NoChild
    /\ ex = IdleEx
    /\ tmpArchive = NoTmp
    /\ bld = IdleBld
    /\ uuids = 0
    /\ ops = 0
    /\ others = NoOthers

SpecCache == InitCache /\ [][Next]_vars

\* Two processes that export containers at the same time: the containers c1
\* and c2 of the image base, each with a file of its own in cow_rw.
InitExports ==
    /\ images = (<<"base">> :> BaseImage)
    /\ extracted = (<<"base">> :> BaseImage.tree)
    /\ containers =
          (<<"c1">> :> [NewContainerDir(<<"c1">>, <<"base">>)
                          EXCEPT !.dirs = TRUE, !.added = {"a"}])
          @@ (<<"c2">> :> [NewContainerDir(<<"c2">>, <<"base">>)
                             EXCEPT !.dirs = TRUE, !.added = {"b"}])
    /\ cgroups = {}
    /\ hostShared = TRUE
    /\ hostMounts = {<<"/">>}
    /\ cmd = Idle
    /\ rc = IdleRc
    /\ child = NoChild
    /\ ex = IdleEx
    /\ tmpArchive = NoTmp
    /\ bld = IdleBld
    /\ uuids = 0
    /\ ops = 0
    /\ others = NoOthers

NextExports ==
    \/ CallExportConcurrent
    \/ ExportReturn
    \/ ExBegin
    \/ ExArchive
    \/ ExUmount
    \/ ExImport
    \/ Switch

SpecExports == InitExports /\ [][NextExports]_vars

\* Two processes that start containers at the same time: the containers c1
\* and c2 of the image base, which has not been extracted yet.  No signal
\* is sent to the children and waitpid does not fail.
InitStarts ==
    /\ images = (<<"base">> :> BaseImage)
    /\ extracted = <<>>
    /\ containers = (<<"c1">> :> NewContainerDir(<<"c1">>, <<"base">>))
                     @@ (<<"c2">> :> NewContainerDir(<<"c2">>, <<"base">>))
    /\ cgroups = {}
    /\ hostShared = TRUE
    /\ hostMounts = {<<"/">>}
    /\ cmd = Idle
    /\ rc = IdleRc
    /\ child = NoChild
    /\ ex = IdleEx
    /\ tmpArchive = NoTmp
    /\ bld = IdleBld
    /\ uuids = 0
    /\ ops = 0
    /\ others = NoOthers

NextStarts ==
    \/ CmdStartConcurrent
    \/ CmdReturn
    \/ RcBegin
    \/ RcUnpack
    \/ RcUnpacked
    \/ RcWait
    \/ ChildStepOk
    \/ ChildStepFails
    \/ CommandRuns
    \/ Switch

SpecStarts == InitStarts /\ [][NextStarts]_vars

\* Runs under names the user chose freely, from the store with the image
\* base only.
NextNames ==
    \/ CmdRunNamed
    \/ CmdReturn
    \/ RcBegin
    \/ RcWait
    \/ RcWaitFails
    \/ ChildStepOk
    \/ ChildStepFails
    \/ ChildKilled
    \/ CommandRuns

SpecNames == Init /\ [][NextNames]_vars

\* Calls of a user of the library on the container store, and config.json
\* files written by hand.
InitConfig ==
    /\ Init
    /\ hostShared

NextConfig ==
    \/ StoreCreate
    \/ StoreGet
    \/ StoreRemove
    \/ WriteConfig

SpecConfig == InitConfig /\ [][NextConfig]_vars

\* ---------------------------------------------------------- properties

\* The image name in the configuration of a stored container.
ImageOf(name) == containers[name].image_name

InvalidImage == Err("InitializationError(InvalidImage)")

\* The order of the setup events as section 4.4.1 lists them.
ListedOrder ==
    <<"cgroup_cpu", "cgroup_memory", "sethostname", "mount_private", "overlay",
      "mount_proc", "mount_sysfs", "mount_tmpfs", "mount_devpts", "create_devices",
      "mkdir_old_root", "pivot_root", "chdir", "umount_old_root", "rmdir_old_root",
      "exec">>

\* C1: in every execution of the child body the setup events that have
\* happened are an initial part of the listed order: cpu cgroup, memory
\* cgroup, sethostname, private remount, overlay, proc, sysfs, tmpfs, devpts,
\* device nodes, old_root and pivot_root, chdir, unmount and removal of
\* /old_root, exec; so each happens only after all the earlier ones succeeded.
C1_SetupOrder == IsPrefix(child.events, ListedOrder)

\* The whole body has run and the command was exec'ed.
C1_Witness == child.executed /\ child.events = ListedOrder

\* C2: once a step of the child body has failed, no later step is performed,
\* the command is never executed, the child has exited with status 242, and
\* run_command, having waited for that status, returns ContainerSetupError.
C2_AllOrNothing ==
    child.failed # 0 =>
        /\ Len(child.events) = child.failed - 1
        /\ ~child.executed
        /\ ~child.alive
        /\ child.status = Exited(242)
        /\ (rc.pc = "done" /\ rc.status # NoStatus
              => rc.result = Err("ContainerSetupError"))

\* The exec itself failed and run_command has returned.
C2_Witness ==
    /\ child.failed = Len(ListedOrder)
    /\ rc.pc = "done"
    /\ rc.result = Err("ContainerSetupError")

\* C3: run_command returns after a spawned child only once the child has
\* terminated, and its result is decided by the wait status alone: exit code
\* 0 gives success, 242 gives ContainerSetupError (also when the command
\* itself exited with 242), any other code n gives CommandExitedWithError(n),
\* and a termination by signal gives ContainerExitedAbnormally.
C3_ExitMapping ==
    rc.pc = "done" /\ rc.spawned =>
        /\ ~child.alive
        /\ child.status # NoStatus
        /\ rc.status # NoStatus =>
              /\ rc.status = child.status
              /\ rc.status.kind = "Exited" /\ rc.status.code = 0 => rc.result = Ok
              /\ rc.status.kind = "Exited" /\ rc.status.code = 242
                    => rc.result = Err("ContainerSetupError")
              /\ rc.status.kind = "Exited" /\ rc.status.code \notin {0, 242}
                    => rc.result = CommandExitedWithError(rc.status.code)
              /\ rc.status.kind # "Exited"
                    => rc.result = Err("ContainerExitedAbnormally")

\* The user's own command exited with 242.
C3_Witness ==
    /\ rc.pc = "done"
    /\ child.executed
    /\ rc.status = Exited(242)
    /\ rc.result = Err("ContainerSetupError")

\* C4: a container is created whatever its image name; run_command and
\* export_as_image on a container whose image name is in neither the
\* extracted-image store nor the image store return
\* InitializationError(InvalidImage) with no child spawned, no cgroup made and
\* no mount made.
C4_MissingImage ==
    /\ rc.pc = "done" /\ ImageOf(rc.container) \notin (rc.extAtCall \cup rc.imgAtCall)
          => /\ rc.result = InvalidImage
             /\ ~rc.spawned
             /\ child = NoChild
             /\ cgroups = rc.cgAtCall
             /\ hostMounts = rc.mountsAtCall
    /\ ex.pc = "done" /\ ImageOf(ex.container) \notin (ex.extAtCall \cup ex.imgAtCall)
          => /\ ex.result = InvalidImage
             /\ ~ex.mounted
             /\ hostMounts = ex.mountsAtCall

\* A container of the missing image "ghost" was created and run, and is now
\* exported.
C4_Witness ==
    /\ ex.pc = "done"
    /\ ex.result = InvalidImage
    /\ ImageOf(ex.container) = <<"ghost">>
    /\ <<"ghost">> \notin DOMAIN images

\* C5, as claimed: run_command with a command that contains a NUL byte
\* returns InvalidCommand and spawns no child.
C5_Original ==
    rc.pc = "done" /\ "nul" \in Range(rc.command) =>
        /\ rc.result = Err("InvalidCommand")
        /\ ~rc.spawned

\* The result of resolving the image of a container, from the stores as they
\* were at the call.
ResolveAtCall(image_name) ==
    IF image_name \in rc.extAtCall THEN Ok
    ELSE IF image_name \notin rc.imgAtCall THEN InvalidImage
    ELSE IF images[image_name].kind = "absent" THEN InvalidImage
    ELSE IF images[image_name].kind = "corrupt"
    THEN Err("InitializationError(UnpackError)")
    ELSE Ok

\* C5, amended: run_command with a command that contains a NUL byte spawns
\* no child (no clone, no cgroup, no mount, nothing executed); it returns
\* InvalidCommand when the container's image resolves, and the
\* InitializationError of the image otherwise, the image being resolved first.
C5_NulCommand ==
    rc.pc = "done" /\ "nul" \in Range(rc.command) =>
        /\ ~rc.spawned
        /\ child = NoChild
        /\ cgroups = rc.cgAtCall
        /\ hostMounts = rc.mountsAtCall
        /\ rc.result = IF ResolveAtCall(ImageOf(rc.container)) = Ok
                       THEN Err("InvalidCommand")
                       ELSE ResolveAtCall(ImageOf(rc.container))

\* A command with a NUL byte was rejected on a container whose image resolves.
C5_Witness ==
    /\ rc.pc = "done"
    /\ "nul" \in Range(rc.command)
    /\ rc.result = Err("InvalidCommand")

\* C6: from the call of run_command to its return the host mount table is
\* the one it was at the call, whatever the command did and whether the setup
\* succeeded or failed: every mount of the child is made in the child's
\* namespace.
C6_HostMountsUntouched ==
    rc.pc \in {"call", "wait", "done"} => hostMounts = rc.mountsAtCall

\* On a host whose / is shared, the command has mounted a filesystem in the
\* container and the run has returned.
C6_Witness ==
    /\ rc.pc = "done"
    /\ hostShared
    /\ child.executed
    /\ rc.command = <<"mount_x">>
    /\ rc.result = Ok
    /\ {"mount_private", "overlay", "mount_devpts"} \subseteq Range(child.events)

\* The container and image names a build has drawn so far.
BuildContainers == {bld.created[i].container : i \in 1..Len(bld.created)}
BuildImages == {bld.exported[i].image : i \in 1..Len(bld.exported)}

\* C7: the steps of a build form a chain.  The first container is created
\* from the FROM image; every later container is created only after the one
\* before it has been run and exported, from exactly the image that export
\* made; the names of the containers and of the exported images are fresh:
\* distinct from each other and from every name the stores held.
C7_BuildChain ==
    /\ Len(bld.created) >= 1 => bld.created[1].image_name = bld.from
    /\ \A i \in 2..Len(bld.created) :
          /\ i - 1 <= Len(bld.exported)
          /\ bld.ran[i - 1] = bld.created[i - 1].container
          /\ bld.exported[i - 1].container = bld.created[i - 1].container
          /\ bld.created[i].image_name = bld.exported[i - 1].image
    /\ Len(bld.exported) <= Len(bld.ran)
    /\ Len(bld.ran) <= Len(bld.created)
    /\ Len(bld.created) <= Len(bld.exported) + 1
    /\ Cardinality(BuildContainers \cup BuildImages)
          = Len(bld.created) + Len(bld.exported)
    /\ (BuildContainers \cup BuildImages)
          \cap (bld.containersAtCall \cup DOMAIN bld.imagesAtCall) = {}

\* The second step of a build has exported its container.
C7_Witness ==
    /\ Len(bld.created) = 2
    /\ Len(bld.exported) = 2
    /\ bld.created[2].image_name = bld.exported[1].image
    /\ bld.created[2].image_name # bld.from

\* The RUN lines of a script.
RunLines(script) ==
    {i \in 1..Len(script) : script[i] # <<>> /\ script[i][1] = "RUN"}

\* C8: a successful build of a script with k RUN lines leaves exactly k new
\* containers and k intermediate images, all still in the stores; with a
\* final name there is one image more, under that name (new or overwritten),
\* whose archive is, for k >= 1, the archive of the last intermediate image;
\* without a final name the intermediate images are the only new ones; the
\* other images are as they were.
C8_BuildStructure ==
    bld.pc = "done" /\ bld.result = BuildOk =>
        LET k == Cardinality(RunLines(bld.script))
        IN /\ Len(bld.created) = k
           /\ Len(bld.exported) = k
           /\ Cardinality(BuildContainers) = k
           /\ Cardinality(BuildImages) = k
           /\ DOMAIN containers = bld.containersAtCall \cup BuildContainers
           /\ BuildImages \subseteq DOMAIN images
           /\ \A n \in BuildImages : images[n].kind = "tar"
           /\ DOMAIN images \ (DOMAIN bld.imagesAtCall \cup BuildImages)
                 = IF bld.named /\ bld.name \notin DOMAIN bld.imagesAtCall
                   THEN {bld.name} ELSE {}
           /\ bld.named => bld.name \in DOMAIN images
           /\ bld.named /\ k >= 1 => images[bld.name] = images[bld.exported[k].image]
           /\ \A n \in DOMAIN bld.imagesAtCall :
                 ~(bld.named /\ n = bld.name)
                    => n \in DOMAIN images /\ images[n] = bld.imagesAtCall[n]

\* A named build of two steps has succeeded; the final image holds what
\* both steps wrote.
C8_Witness ==
    /\ bld.pc = "done"
    /\ bld.result = BuildOk
    /\ bld.named
    /\ Len(bld.exported) = 2
    /\ images[bld.name] = Archive(BaseImage.tree \cup {"a", "b"})

\* C9: a build stops at the first failing step.  When run_command on the
\* container of a step returns an error, the next thing the build does is to
\* return: no export is called, no container is created, no image is
\* written.  At that return the failing container is the last one created, it
\* was run once and not exported, and the image under the final name, if
\* any, is the one that was there before the build.
C9_StopsAtFirstFailure ==
    /\ [](bld.pc = "done" /\ bld.result.err = "IntermediateContainerError"
                /\ bld.result.cause.err \in {"CommandExitedWithError", "ContainerSetupError",
                                            "ContainerExitedAbnormally"}
             => /\ Len(bld.created) = Len(bld.ran)
                /\ Len(bld.exported) = Len(bld.ran) - 1
                /\ bld.ran[Len(bld.ran)] = bld.container
                /\ Cardinality(Range(bld.ran)) = Len(bld.ran)
                /\ \A i \in 1..Len(bld.exported) :
                      bld.exported[i].container # bld.container
                /\ bld.named =>
                      /\ bld.name \in DOMAIN images <=> bld.name \in DOMAIN bld.imagesAtCall
                      /\ bld.name \in DOMAIN images
                            => images[bld.name] = bld.imagesAtCall[bld.name])
    /\ [][bld.pc = "run" /\ rc.pc = "done" /\ rc.result # Ok
             => /\ bld'.pc = "done"
                /\ bld'.result = IntermediateContainerError(rc.result)
                /\ ex' = ex
                /\ stores' = stores]_vars
    /\ [][bld.pc = "done" => stores' = stores /\ rc' = rc /\ ex' = ex]_vars

\* The command of a step has exited with an error while a later line was
\* still to come, in a build with a final name.
C9_Witness ==
    /\ bld.pc = "done"
    /\ bld.result.err = "IntermediateContainerError"
    /\ bld.result.cause.err = "CommandExitedWithError"
    /\ bld.lines # <<>>
    /\ bld.named

\* C10: whenever the creation, the run or the export of an intermediate
\* container has failed, build returns IntermediateContainerError wrapping
\* the container's error.
C10_FailuresWrapped ==
    bld.pc = "done" /\ bld.cerr # Ok
        => bld.result = IntermediateContainerError(bld.cerr)

\* C11: with a final name and every step succeeded, build either copies the
\* archive of the last image under the name and succeeds, or returns
\* CannotCreateResultingImage; the last image missing from the image store
\* is one of these failures.
C11_FinalImageErrors ==
    (/\ bld.pc = "done"
     /\ bld.from # <<>>
     /\ bld.lines = <<>>
     /\ bld.cerr = Ok
     /\ Len(bld.created) = Len(bld.exported)
     /\ Len(bld.exported) = Cardinality(RunLines(bld.script))
     /\ bld.named) =>
        /\ bld.result \in {BuildOk, BuildErr("CannotCreateResultingImage")}
        /\ ~GetImage(bld.imagesAtCall,
                    IF bld.exported = <<>> THEN bld.from
                    ELSE bld.exported[Len(bld.exported)].image) /\ bld.exported = <<>>
              => bld.result = BuildErr("CannotCreateResultingImage")

\* What a shell command of the scripts does to a tree.
Effect(command, tree) ==
    CASE command = <<"touch_a">> -> tree \cup {"a"}
      [] command = <<"touch_b">> -> tree \cup {"b"}
      [] command = <<"rm_a_l">> -> tree \ {"a", "l"}
      [] OTHER -> tree

\* The tree after the first i steps of the build, from the tree of the FROM
\* image.
RECURSIVE ExpectedTree(_)
ExpectedTree(i) ==
    IF i = 0 THEN bld.imagesAtCall[bld.from].tree
    ELSE Effect(Splitn2(NonEmptyLines(bld.script)[i + 1])[2], ExpectedTree(i - 1))

\* C12: the results of a build accumulate.  The image exported by step i
\* holds the entries of the FROM image and those the steps 1..i created,
\* less those a step removed afterwards; every exported image stays so until
\* the build returns, and the final image of a successful named build holds
\* the tree of the last step.
C12_Accumulates ==
    /\ \A i \in 1..Len(bld.exported) :
          /\ bld.exported[i].image \in DOMAIN images
          /\ images[bld.exported[i].image] = Archive(ExpectedTree(i))
    /\ bld.pc = "done" /\ bld.result = BuildOk /\ bld.named /\ bld.exported # <<>>
          => images[bld.name] = Archive(ExpectedTree(Len(bld.exported)))

\* A build of `touch a` then `rm a l` has succeeded: the first image has
\* the file and the entries of the FROM image, the final one has lost the
\* file and the link.
C12_Witness ==
    /\ bld.pc = "done"
    /\ bld.result = BuildOk
    /\ bld.named
    /\ Len(bld.exported) = 2
    /\ images[bld.exported[1].image] = Archive({"a", "d", "l"})
    /\ images[bld.name] = Archive({"d"})

\* The lines of a script that are not the empty line, by their positions.
NonBlank(script) == {i \in 1..Len(script) : Len(script[i]) > 0}

\* The tokens of the first such line.
FirstTokens(script) ==
    LET i == CHOOSE i \in NonBlank(script) : \A j \in NonBlank(script) : i <= j
    IN SplitAsciiWhitespace(script[i])

\* The build has created no container and no image and has run nothing.
NothingDone ==
    /\ DOMAIN containers = bld.containersAtCall
    /\ images = bld.imagesAtCall
    /\ bld.created = <<>>
    /\ uuids = 0
    /\ rc = IdleRc
    /\ child = NoChild
    /\ ex = IdleEx

C14_ExtraTokensRejected ==
    bld.pc # "idle" /\ NonBlank(bld.script) # {} =>
        LET t == FirstTokens(bld.script)
        IN Len(t) >= 3 /\ t[1] = <<"FROM">>
              => /\ bld.pc = "done"
                 /\ bld.result # BuildOk
                 /\ DOMAIN containers = bld.containersAtCall

\* The line the loop of the build is at: the last one taken from the
\* filtered lines.
CurrentLine ==
    LET lines == SelectSeq(bld.script, LAMBDA l : Len(l) > 0)
    IN lines[Len(lines) - Len(bld.lines)]

\* The text of a line before its first space, and the text after that space
\* (empty when the line has no space).
LeadingToken(line) ==
    IF \E i \in 1..Len(line) : line[i] = " "
    THEN SubSeq(line, 1, (CHOOSE i \in 1..Len(line) :
                             line[i] = " " /\ \A j \in 1..(i - 1) : line[j] # " ") - 1)
    ELSE line

Arguments(line) == SubSeq(line, Len(LeadingToken(line)) + 2, Len(line))

\* C15: a line after the FROM line is accepted iff it is RUN followed by
\* non-empty arguments, and then the arguments are the command run in the
\* step's container; RUN with no or empty arguments makes build return
\* InvalidArguments(1, 0), and a line with another leading token T
\* InvalidCommand(T).
C15_CommandLines ==
    /\ bld.pc \in {"run", "export"} =>
          /\ LeadingToken(CurrentLine) = <<"RUN">>
          /\ Arguments(CurrentLine) # <<>>
    /\ bld.pc = "run" =>
          /\ rc.command = Arguments(CurrentLine)
          /\ rc.container = bld.container
    /\ bld.pc = "done" /\ bld.created # <<>> /\ Len(bld.ran) < Len(bld.created) =>
          /\ LeadingToken(CurrentLine) = <<"RUN">>
                => /\ Arguments(CurrentLine) = <<>>
                   /\ bld.result = BuildErr("InvalidArguments(1, 0)")
          /\ LeadingToken(CurrentLine) # <<"RUN">>
                => bld.result = InvalidCommand(LeadingToken(CurrentLine))
    /\ bld.pc = "done" /\ bld.result.err \in {"InvalidArguments(1, 0)", "InvalidCommand"}
          => Len(bld.ran) < Len(bld.created)

\* The second line after FROM was `RUN ` with empty arguments, after a first
\* step that ran its command.
C15_Witness ==
    /\ bld.pc = "done"
    /\ bld.result = BuildErr("InvalidArguments(1, 0)")
    /\ CurrentLine = <<"RUN", " ">>
    /\ Len(bld.exported) = 1

\* A script with its blank lines deleted.
StripBlank(script) == SelectSeq(script, LAMBDA l : \E i \in 1..Len(l) : ~IsWhitespace(l[i]))

\* The commands the loop of build takes from the lines after the FROM line,
\* up to the first line it rejects.
RECURSIVE PlanSteps(_, _)
PlanSteps(lines, acc) ==
    IF lines = <<>> THEN [commands |-> acc, result |-> BuildOk]
    ELSE IF ParseCommand(Head(lines)).result # BuildOk
    THEN [commands |-> acc, result |-> ParseCommand(Head(lines)).result]
    ELSE PlanSteps(Tail(lines), Append(acc, ParseCommand(Head(lines)).args))

\* What build makes of a script: the error, or the base image and the
\* sequence of RUN commands.
Plan(script) ==
    LET lines == NonEmptyLines(script)
        f == ParseFromDirective(lines)
    IN IF f.result # BuildOk
       THEN [base |-> <<>>, commands |-> <<>>, result |-> f.result]
       ELSE [base |-> f.base, commands |-> PlanSteps(Tail(lines), <<>>).commands,
             result |-> PlanSteps(Tail(lines), <<>>).result]

\* C16: blank lines (empty, or of whitespace only) do not change what build
\* makes of a script: the script and the script with its blank lines deleted
\* give the same error, or the same base image and the same RUN commands, and
\* the base image the build works from is that of the script without them.
C16_BlankLinesSkipped ==
    bld.pc # "idle" =>
        /\ Plan(bld.script) = Plan(StripBlank(bld.script))
        /\ bld.from = Plan(StripBlank(bld.script)).base

\* The merged filesystem of the container of step i of the build: its own
\* layer over the extracted image it was created from.
StepFilesystem(i) ==
    Merged(containers[bld.exported[i].container],
           extracted[bld.created[i].image_name])

C18_OverlayUnmounted ==
    ex.pc = "done" /\ (<<"overlay">> \o ex.container) \in hostMounts =>
        /\ ex.result = Err("ContainerSetupError")
        /\ ex.name \notin DOMAIN images \ ex.imgAtCall

\* C19: an extracted image has the name of its source image.  When
\* run_command or export_as_image has resolved the image of its container,
\* the directory it works from is <extracted-root>/<image_name>, so the
\* image name is in the extracted-image store afterwards; this for every
\* image name, also one that contains a dot.
C19_ExtractedName ==
    /\ rc.pc \in {"wait", "done"} /\ rc.spawned =>
          /\ child.image = ImageOf(rc.container)
          /\ GetExtractedImage(extracted, ImageOf(rc.container))
    /\ ex.pc \in {"archive", "umount", "import"} =>
          /\ ex.image = ImageOf(ex.container)
          /\ GetExtractedImage(extracted, ImageOf(ex.container))

\* C20: get_container distinguishes its two failure cases: it returns
\* nothing for a name with no directory, and reports InvalidConfigurationFile
\* for a directory whose config.json is malformed, which it never reports as
\* absent.
C20_GetDistinguishes ==
    \A n \in DOMAIN containers :
        LoadFromFile(containers[n]) = Err("InvalidConfigurationFile") =>
            /\ GetContainerResult(containers, n) = "InvalidConfigurationFile"
            /\ GetContainerResult(containers, n) # GetContainerResult(Drop(containers, n), n)

\* C21: the configuration round trip.  After create_container(name,
\* image_name), the text saved in config.json loads back to the two fields
\* given, and get_container(name) returns a container whose name and
\* image_name are the ones given to create and whose name is the name of its
\* directory.
C21_ConfigRoundTrip ==
    cmd.kind = "store" /\ cmd.call = "create" =>
        /\ FromReader(containers[cmd.name].json) =
              [ok |-> TRUE, name |-> cmd.name, image_name |-> cmd.image_name]
        /\ GetContainerValue(containers, cmd.name) =
              [some |-> TRUE, name |-> cmd.name, image_name |-> cmd.image_name,
               dir |-> cmd.name]

\* A container was created whose name holds a double quote and whose image
\* name is a backslash and a double quote.
C21_Witness ==
    /\ cmd.kind = "store" /\ cmd.call = "create"
    /\ cmd.name = <<"my", "q", "box">>
    /\ cmd.image_name = <<"bs", "q">>
    /\ GetContainerValue(containers, cmd.name).image_name = <<"bs", "q">>

\* A config.json of exactly the two string fields, in either order.
IsStrictConfig(text) ==
    LET l == Tokens(text, 1, <<>>)
    IN /\ l.ok
       /\ Len(l.toks) = 9
       /\ l.toks[1] = Punct("{") /\ l.toks[9] = Punct("}")
       /\ l.toks[3] = Punct(":") /\ l.toks[5] = Punct(",") /\ l.toks[7] = Punct(":")
       /\ \A i \in {2, 4, 6, 8} : l.toks[i].t = "str"
       /\ {l.toks[2].v, l.toks[6].v} = {<<"name">>, <<"image_name">>}

\* C22: configuration parsing is strict.  The config.json of a directory
\* loads iff it is an object with exactly the two string fields name and
\* image_name; every other text (a field missing, a field more, not an
\* object) gives InvalidConfigurationFile, and get_container returns no
\* container for the directory.
C22_StrictParsing ==
    \A n \in DOMAIN containers :
        containers[n].config = "present" =>
            /\ LoadFromFile(containers[n]) = Ok <=> IsStrictConfig(containers[n].json)
            /\ ~IsStrictConfig(containers[n].json) =>
                  /\ LoadFromFile(containers[n]) = Err("InvalidConfigurationFile")
                  /\ ~GetContainer(containers, n)

\* C23: repeated creation is idempotent.  When `jocker run` creates the
\* container of a name that get_container already finds, with the image name
\* its configuration already has, the creation succeeds and leaves the
\* container store exactly as it was: the same config.json, and cow_rw,
\* cow_workdir and rootfs with what they held.
C23_RepeatedCreate ==
    [][cmd.kind = "idle" /\ cmd'.kind = "run"
       /\ GetContainer(containers, rc'.container)
       /\ ImageOf(rc'.container) = containers'[rc'.container].image_name
          => containers' = containers]_vars

\* A container that an earlier run left with a file in cow_rw has just been
\* created again for a second run with the same image.
C23_Witness ==
    /\ cmd.kind = "run" /\ rc.pc = "call"
    /\ ImageOf(rc.container) = <<"base">>
    /\ containers[rc.container].dirs
    /\ containers[rc.container].added = {"a"}
    /\ containers[rc.container].json = ToWriter(rc.container, <<"base">>)

\* C24: import then list is a round trip.  For every name N an archive was
\* imported under, whatever else the store holds, the listing has exactly
\* one entry whose name() is N, and get_image(N) returns the image of that
\* name.
C24_ImportListRoundTrip ==
    \A N \in DOMAIN images :
        images[N].kind # "absent" =>
            /\ Cardinality({d \in DOMAIN images : ImageName(d) = N}) = 1
            /\ GetImage(images, N)
            /\ ImageName(N) = N

\* C25: an extracted image is never evicted or refreshed.  No step of any
\* operation deletes an extracted image or changes its tree, and a
\* run_command or export_as_image on a container whose image name was in the
\* extracted-image store at the call works from that extracted image and
\* never fails on the image, whatever the image store holds by then.
C25_NeverEvicted ==
    /\ [][\A N \in DOMAIN extracted :
             N \in DOMAIN extracted' /\ extracted'[N] = extracted[N]]_vars
    /\ [](rc.pc \in {"wait", "done"} /\ ImageOf(rc.container) \in rc.extAtCall
             => /\ rc.result.err \notin {"InitializationError(InvalidImage)",
                                         "InitializationError(UnpackError)"}
                /\ rc.spawned => child.image = ImageOf(rc.container))
    /\ [](ex.pc \in {"archive", "umount", "import"}
           /\ ImageOf(ex.container) \in ex.extAtCall
             => ex.image = ImageOf(ex.container))

\* C26: export is unsafe under concurrency because of the fixed temporary
\* path.  Every export_as_image, of whichever process and container, writes
\* its archive to the one file /tmp/image.tar.gz over what is there, imports
\* under its name whatever that file holds when it comes to import, and then
\* removes the file, also while another export is between its archive and
\* its import; so with two exports at the same time an image can hold the
\* archive of the other container.
C26_SharedTempFile ==
    /\ [](DOMAIN tmpArchive \subseteq {<<"/tmp/image.tar.gz">>})
    /\ [][ex.pc = "archive" /\ ex'.pc = "umount" /\ others' = others
             => tmpArchive' = (<<"/tmp/image.tar.gz">> :>
                   Archive(AppendFiles(containers[ex.container],
                                       extracted[ex.image])))]_vars
    /\ [][ex.pc = "import" /\ ex'.pc = "done" /\ ex'.result = Ok /\ others' = others
             => /\ images'[ex.name] = tmpArchive[<<"/tmp/image.tar.gz">>]
                /\ tmpArchive' = NoTmp]_vars

\* The export of c1 under the name out1 has returned without an error while
\* another process exported c2 under the name out2, and the image out1 holds
\* the archive of c2.
C26_Witness ==
    /\ ex.pc = "done" /\ ex.result = Ok
    /\ ex.container = <<"c1">> /\ ex.name = <<"out1">>
    /\ others.ex.container = <<"c2">> /\ others.ex.name = <<"out2">>
    /\ images[<<"out1">>] =
          Archive(AppendFiles(containers[<<"c2">>], extracted[<<"base">>]))
    /\ images[<<"out1">>] #
          Archive(AppendFiles(containers[<<"c1">>], extracted[<<"base">>]))

\* The directory the extraction for a frame of run_command is written to.
UnpackDest(frame) == ImageName(ImageOf(frame.container))

\* C27: the stores have no locking.  While a process unpacks an image, the
\* destination directory is already in the extracted-image store, complete
\* or not, and a run_command that finds the directory of its image name
\* there takes it as the extracted image at once: it unpacks nothing, waits
\* for nothing and does not fail on the image; so of two processes that run
\* containers of an image not yet extracted, one can start its container on
\* the directory the other is still unpacking.
C27_NoLocking ==
    /\ [](rc.pc = "unpack" => UnpackDest(rc) \in DOMAIN extracted)
    /\ [](others.rc.pc = "unpack" => UnpackDest(others.rc) \in DOMAIN extracted)
    /\ [][rc.pc = "call" /\ GetExtractedImage(extracted, ImageOf(rc.container))
          /\ rc'.pc # "call" /\ others' = others
             => /\ extracted' = extracted
                /\ rc'.result.err \notin {"InitializationError(InvalidImage)",
                                          "InitializationError(UnpackError)"}
                /\ rc'.pc = "wait" => child'.image = ImageOf(rc.container)]_vars

\* The command of one container was executed on the extracted image base
\* while the process of the other container was still unpacking it, and the
\* directory did not hold the whole tree of the image.
C27_Witness ==
    /\ rc.pc = "wait" /\ child.executed
    /\ child.image = <<"base">>
    /\ others.rc.pc = "unpack"
    /\ others.rc.container # rc.container
    /\ extracted[<<"base">>] # images[<<"base">>].tree

\* C28: a failed extraction is never served as a cache hit.  When
\* run_command has returned the error of a failed extraction of its image N,
\* the extracted-image store has no entry for N that was not there at the
\* call, so a later run_command with N extracts again.
C28_FailedExtractionNotCached ==
    rc.pc = "done"
      /\ rc.result.err \in {"InitializationError(InvalidImage)",
                            "InitializationError(UnpackError)"} =>
        /\ ~GetExtractedImage(extracted, ImageOf(rc.container))
        /\ DOMAIN extracted = rc.extAtCall

\* C29: command lines are validated lazily.  When build returns
\* InvalidCommand or InvalidArguments for the k-th line after FROM, the
\* commands of the k-1 lines before it have been run and their containers
\* exported, the k-th container has been created from the last exported
\* image and is in the store as created, with nothing run in it; and the
\* return removes none of the containers and images.
C29_LazyValidation ==
    /\ [](bld.pc = "done" /\ bld.result.err \in {"InvalidCommand", "InvalidArguments(1, 0)"} =>
            LET k == Len(bld.created)
            IN /\ k >= 1
               /\ k = Len(NonEmptyLines(bld.script)) - 1 - Len(bld.lines)
               /\ ParseCommand(CurrentLine).result = bld.result
               /\ Len(bld.ran) = k - 1
               /\ Len(bld.exported) = k - 1
               /\ \A i \in 1..(k - 1) :
                     /\ bld.ran[i] = bld.created[i].container
                     /\ bld.exported[i].container = bld.created[i].container
                     /\ bld.exported[i].image \in DOMAIN images
                     /\ bld.created[i].container \in DOMAIN containers
               /\ bld.created[k].container = bld.container
               /\ bld.created[k].image_name =
                     (IF k = 1 THEN bld.from ELSE bld.exported[k - 1].image)
               /\ bld.container \notin bld.containersAtCall
               /\ bld.container \in DOMAIN containers
               /\ containers[bld.container] =
                     NewContainerDir(bld.container, bld.created[k].image_name)
               /\ \A g \in cgroups : g[2] # bld.container[1]
               /\ bld.container \notin Range(bld.ran))
    /\ [][bld.pc = "done" /\ bld.result.err \in {"InvalidCommand", "InvalidArguments(1, 0)"}
             => stores' = stores]_vars

\* The second line after FROM was not a RUN line: the first step was run
\* and exported, and the container of the second step is in the store.
C29_Witness ==
    /\ bld.pc = "done"
    /\ bld.result = InvalidCommand(<<"COPY">>)
    /\ Len(bld.exported) = 1
    /\ Len(bld.created) = 2
    /\ bld.container \in DOMAIN containers

\* C30: container setup is re-entrant.  Whenever the child of a run_command
\* is about to perform a step that creates a directory or a node, nothing
\* that an earlier run_command on the container left behind makes the step
\* fail, whatever the outcome of the earlier run was.
C30_SetupReentrant ==
    child.alive /\ child.pc \in 1..Len(RunContainer)
      /\ RunContainer[child.pc] \in {"cgroup_cpu", "cgroup_memory", "overlay", "create_devices",
           "mkdir_old_root"}
        => StepCanSucceed(RunContainer[child.pc], containers[rc.container], child,
                          extracted[child.image])

\* C31: every container created by the run command has a name that is a
\* simple, non-empty path component made only of alphanumeric characters
\* and dashes, so its directory is a direct child of the container store
\* root: never the root itself, never deeper, never outside it.
C31_SimpleNames ==
    \A n \in DOMAIN containers :
        /\ n # <<>>
        /\ \A i \in 1..Len(n) : n[i] \notin {".", "/", " ", "tab", "nul", "_"}
        /\ JoinPath(ContainersDir, n) = Append(ContainersDir, n)

====
